---- MODULE Spec2Model ----
(***************************************************************************)
(* politodown: the authenticating HTTP session (http.py), the lazily       *)
(* fetched resource tree and the downloader (datatypes.py).                *)
(*                                                                         *)
(* Four specifications share this module:                                  *)
(*   Spec      the session: callers of send/stream/signin, the session     *)
(*             lock, the request/response hooks and the redirect loop of   *)
(*             the inherited client that drives them;                      *)
(*   TreeSpec  Folder.childs / Material.assignments on one node;           *)
(*   FilesSpec Folder.files over a subtree;                                *)
(*   SaveSpec  File.save.                                                  *)
(***************************************************************************)
EXTENDS Integers, Sequences, FiniteSets, TLC

(***************************************************************************)
(* Bounds of the model.                                                    *)
(***************************************************************************)
NumCallers == 2
\* longest listing the portal returns for a node
MaxListing == 2
\* network calls made for one node
MaxFetches == 2
\* files and folders below the folder whose files() is walked
MaxNodes == 4
\* largest file, in chunks of one byte
MaxSize == 2
\* times a function is applied to its own result
MaxApply == 2
\* longest name given to get_valid_filename
MaxName == 3
\* most lessons on a listing page of a Videostore
MaxLessons == 2

(***************************************************************************)
(* Program constants.                                                      *)
(***************************************************************************)
\* asyncio.sleep(5) of _handle_throttling
ThrottleDelay == 5
\* the inherited client is constructed without max_redirects, so its
\* redirect loop gives up once the history is longer than the default of 20
MaxRedirects == 20

VARIABLES
    \* ---- session (http.py) ----
    event,      \* AsyncClient.event: 0 when free, else the caller holding it
    account,    \* self._username and self._password: what signin stored
    given,      \* the credentials passed to the most recent call of signin
    pc,         \* per caller: where its call of send stands
    req,        \* per caller: the request the redirect loop is about to send
    resp,       \* per caller: the response the hooks are working on / returned
    hist,       \* per caller: len(history) of the redirect loop
    result,     \* per caller: outcome of the call
    slept,      \* per caller: seconds slept since the latest response came
    wire,       \* per caller: the last request put on the wire
    thr,        \* per caller: the request whose response was the last 502
    trail,      \* per caller: what the responses of the exchange looked like
    cookiePath, \* self._cookie_path: "unset" (no such attribute before signin),
                \* "none" (signin without a location) or "path"
    saved,      \* per caller: the jar was dumped after the latest response
    \* ---- one node of the resource tree (datatypes.py) ----
    tkind,      \* "Folder" (also Assignment) or "Material"
    cache,      \* self._childs / self._assignments: a dict object, or 0 for None
    childs,     \* what that dict holds: insertion-ordered entries name -> child
    whole,      \* that dict is empty or holds the children of one listing
    nextDict,   \* dict objects created so far
    nextObj,    \* child objects created so far
    netcalls,   \* calls of session.get made for the node
    tpc,        \* per task: where its call of childs()/assignments() stands
    tforce,     \* per task: force_update of its call
    tret,       \* per task: the dict its call returned
    tfetch,     \* per task: network calls its call made
    toverl,     \* per task: another call was in progress during its call
    last,       \* the call that completed last
    \* ---- Folder.files over a subtree (datatypes.py) ----
    heap,       \* per folder object: its _childs (dict or None, and entries)
    nobj,       \* objects created below the root folder
    stack,      \* the generator frames of files(), innermost last
    out,        \* the files yielded to the consumer so far
    gpc,        \* "idle", "running" or "finished"
    grec,       \* recursive of the call
    gforce,     \* force_update of the call
    gfetched,   \* the folders whose listing this call fetched
    \* ---- File.save (datatypes.py) ----
    dest,       \* the local file at path/filename
    tmp,        \* the local file at path/filename + ".tmp"
    attrs,      \* _filename, _size, _date, _etag of the File (set or not)
    spc,        \* where the call of save() stands
    sover,      \* overwrite of the call
    sname,      \* what filename_generator gives: "name", "empty" or "space"
    sresp,      \* the response of the streamed GET
    yielded,    \* the values the generator has yielded so far
    soutcome,   \* how the call ended
    dest0,      \* the local file as it was when the call began
    tmp0,       \* the temporary file as it was when the call began
    tmpMade,    \* the call opened the temporary file for writing
    genCalled,  \* the call has called filename_generator
    everOk,     \* some call of save has had a 200 response
    sprev,      \* how the call before this one ended, and on which response
    \* ---- _catch_forced_redirect applied to a request (http.py) ----
    hq0,        \* the request as it was given
    hq1,        \* the request after the first application
    hq,         \* the request now
    hn,         \* applications so far
    \* ---- get_valid_filename applied to a name (datatypes.py) ----
    fname0,     \* the name as it was given
    fname1,     \* the name after the first application
    fname,      \* the name now
    fcount,     \* applications so far
    \* ---- Videostore.videolessons on one Videostore (datatypes.py) ----
    videolessons, \* self._videolessons: the entries name -> File of the dict
    vpc,        \* per caller: "idle", "listing", "gather" or "done"
    vlisting,   \* per caller: the lessons of the listing page it got
    vfetched,   \* per caller: detail fetches of its gather that have completed
    vret,       \* per caller: what the call returned or raised
    \* ---- concurrent File.save calls to one destination path ----
    slock,      \* session.event: 0 free, else the caller inside send
    cpc,        \* per caller: where its save is
    cgot,       \* per caller: chunks read from its response and written
    chandle,    \* per caller: the inode its open file is on, 0 when none
    cout,       \* per caller: how its save ended
    inodes,     \* the files of the directory, by inode
    paths,      \* which inode the destination path and the .tmp path name
    ninode      \* inodes made so far

tvars == <<tkind, cache, childs, whole, nextDict, nextObj, netcalls, tpc,
           tforce, tret, tfetch, toverl, last>>

gvars == <<heap, nobj, stack, out, gpc, grec, gforce, gfetched>>

dvars == <<dest, tmp, attrs, spc, sover, sname, sresp, yielded, soutcome,
           dest0, tmp0, tmpMade, genCalled, everOk, sprev>>

svars == <<event, account, given, pc, req, resp, hist, result, slept, wire, thr,
           trail, cookiePath, saved>>

hvars == <<hq0, hq1, hq, hn>>

nvars == <<fname0, fname1, fname, fcount>>

vvars == <<videolessons, vpc, vlisting, vfetched, vret>>

cvars == <<slock, cpc, cgot, chandle, cout, inodes, paths, ninode>>

vars == <<svars, tvars, gvars, dvars, hvars, nvars, vvars, cvars>>

\* what an operation of one part leaves alone: the other parts
OnlySession == UNCHANGED <<tvars, gvars, dvars, hvars, nvars, vvars, cvars>>
OnlyTree == UNCHANGED <<svars, gvars, dvars, hvars, nvars, vvars, cvars>>
OnlyFiles == UNCHANGED <<svars, tvars, dvars, hvars, nvars, vvars, cvars>>
OnlySave == UNCHANGED <<svars, tvars, gvars, hvars, nvars, vvars, cvars>>
OnlyHook == UNCHANGED <<svars, tvars, gvars, dvars, nvars, vvars, cvars>>
OnlyVideo == UNCHANGED <<svars, tvars, gvars, dvars, hvars, nvars, cvars>>
OnlyStream == UNCHANGED <<svars, tvars, gvars, dvars, hvars, nvars, vvars>>
OnlyName == UNCHANGED <<svars, tvars, gvars, dvars, hvars, vvars, cvars>>

Callers == 1..NumCallers

(***************************************************************************)
(* URLs (urls.py and the paths the hooks test).  "home" stands for every   *)
(* portal URL that no hook looks at.  A URL is a place and its query; the  *)
(* query (and a request body) is abstracted to what it carries.            *)
(***************************************************************************)
Places == {"home", "loginpage", "login", "chpass", "sso", "samlpost"}
Payloads == {"none", "creds", "bypass", "saml", "data"}
Pages == {"plain", "form", "error"}

NoReq == [method |-> "-", loc |-> "-", query |-> "none", body |-> "none"]
NoLoc == [loc |-> "-", query |-> "none"]
NoResp == [status |-> 0, loc |-> "-", query |-> "none", location |-> NoLoc,
           page |-> "plain", action |-> "-"]

Request(m, l, q, b) == [method |-> m, loc |-> l, query |-> q, body |-> b]

\* httpx.URL equality with one of the constants of urls.py: same place, no query
UrlIs(r, place) == r.loc = place /\ r.query = "none"

(***************************************************************************)
(* Request hook.                                                           *)
(***************************************************************************)
\* _get_to_post_redirect: POST, the query moved into the body, no query left
GetToPostRedirect(q) ==
    [q EXCEPT !.method = "POST", !.body = q.query, !.query = "none"]

\* a faulty variant of _catch_forced_redirect: the request goes out as it is
CatchForcedRedirectNothing(q) == q

\* _catch_forced_redirect
CatchForcedRedirect(q) ==
    IF q.loc = "login" /\ q.query # "none" THEN GetToPostRedirect(q)
    ELSE IF q.loc = "samlpost" THEN GetToPostRedirect(q)
    ELSE q

(***************************************************************************)
(* Response hooks.  A hook works on the mutable response; its outcome is   *)
(* the response as it left it, or the exception it raised.                 *)
(***************************************************************************)
Ok(r) == [r |-> r, err |-> "none"]
Raise(r, e) == [r |-> r, err |-> e]

IsSuccess(r) == r.status >= 200 /\ r.status <= 299
\* httpx: is_redirect is "a 3xx status"; has_redirect_location also asks for
\* one of the redirect codes and a Location header
IsRedirect(r) == r.status >= 300 /\ r.status <= 399
HasRedirectLocation(r) ==
    r.status \in {301, 302, 303, 307, 308} /\ r.location # NoLoc

\* _redirect_to
RedirectTo(r, place, query) ==
    [r EXCEPT !.status = 302, !.location = [loc |-> place, query |-> query]]

\* _handle_throttling, after its sleep.  _redirect_to is declared for a str
\* and the other hooks pass str(url); this one passes response.url, a URL
\* object, which a header mapping that encodes its values rejects.  Both
\* outcomes are kept: the redirect to the same URL, and the AttributeError.
HandleThrottling(r) ==
    IF r.status = 502
    THEN {Ok(RedirectTo(r, r.loc, r.query)), Raise(r, "AttributeError")}
    ELSE {Ok(r)}

\* the credentials signin is called with; NoAccount: the attributes do not
\* exist
Accounts == {"first", "second"}
NoAccount == "unset"

\* a faulty variant of the accessors: no test of hasattr, a default is returned
UsernameDefault(acct) == [raised |-> FALSE, value |-> acct]

\* the properties username and password: LoginError("You must login
\* first.") while the attribute does not exist
Username(acct) == [raised |-> acct = NoAccount, value |-> acct]
Password(acct) == [raised |-> acct = NoAccount, value |-> acct]

\* building params reads self.username, then self.password
CredentialsRaise(acct) == Username(acct).raised \/ Password(acct).raised

\* _handle_login_request; self.username raises LoginError before signin
HandleLoginRequest(r, acct) ==
    IF UrlIs(r, "loginpage")
    THEN IF CredentialsRaise(acct) THEN Raise(r, "LoginError")
                                   ELSE Ok(RedirectTo(r, "login", "creds"))
    ELSE Ok(r)

\* _handle_exipiring_password (a test of the path: any query)
HandleExpiringPassword(r, acct) ==
    IF r.loc = "chpass"
    THEN IF CredentialsRaise(acct) THEN Raise(r, "LoginError")
                                   ELSE Ok(RedirectTo(r, "login", "bypass"))
    ELSE Ok(r)

\* a faulty variant of _handle_sso_request: the hook leaves the SSO form response as it came
HandleSsoRequestNoRedirect(r) == Ok(r)

\* _handle_sso_request: page.find("form") is None on a page without a form,
\* and form.find_all then raises
HandleSsoRequest(r) ==
    IF IsSuccess(r) /\ r.loc = "sso"
    THEN IF r.page = "form" THEN Ok(RedirectTo(r, r.action, "saml"))
                            ELSE Raise(r, "AttributeError")
    ELSE Ok(r)

\* a faulty variant of _check_auth: the check looks at the login page instead of the
\* login-submission endpoint
CheckAuthLoginPage(r) ==
    IF ~IsRedirect(r) /\ UrlIs(r, "loginpage")
    THEN IF r.page = "error" THEN Raise(r, "LoginError")
                             ELSE Raise(r, "AttributeError")
    ELSE Ok(r)

\* _check_auth: page.find("span", id=loginerror) is None on a page without
\* that element, and .text then raises
CheckAuth(r) ==
    IF ~IsRedirect(r) /\ UrlIs(r, "login")
    THEN IF r.page = "error" THEN Raise(r, "LoginError")
                             ELSE Raise(r, "AttributeError")
    ELSE Ok(r)

\* The response hooks that follow _handle_throttling, in the order of
\* __init__; an exception ends the chain.  The last component tells whether
\* _savecookies was reached.
HooksAfterThrottling(r, acct) ==
    LET h1 == HandleLoginRequest(r, acct)
        h2 == IF h1.err = "none" THEN HandleExpiringPassword(h1.r, acct) ELSE h1
        h3 == IF h2.err = "none" THEN HandleSsoRequest(h2.r) ELSE h2
        h4 == IF h3.err = "none" THEN CheckAuth(h3.r) ELSE h3
    IN  [r |-> h4.r, err |-> h4.err, cookies |-> (h4.err = "none")]

(***************************************************************************)
(* The redirect loop of the inherited client (follow_redirects = True).    *)
(***************************************************************************)
\* a 302 or 303 is followed with GET; other redirects keep the method
RedirectMethod(q, r) == IF r.status \in {302, 303} THEN "GET" ELSE q.method

\* the body is dropped when the method changed to GET
BuildRedirectRequest(q, r) ==
    LET m == RedirectMethod(q, r)
    IN  Request(m, r.location.loc, r.location.query,
                IF m # q.method /\ m = "GET" THEN "none" ELSE q.body)

(***************************************************************************)
(* The portal and the identity provider: any answer to any request.        *)
(***************************************************************************)
Server(q) ==
    {[status |-> s, loc |-> q.loc, query |-> q.query, location |-> NoLoc,
      page |-> pg, action |-> "-"] :
        s \in {200, 404}, pg \in {"plain", "error"}}
    \cup
    {[status |-> 200, loc |-> q.loc, query |-> q.query, location |-> NoLoc,
      page |-> "form", action |-> a] : a \in {"samlpost", "home"}}
    \cup
    {[status |-> s, loc |-> q.loc, query |-> q.query, location |-> NoLoc,
      page |-> "plain", action |-> "-"] : s \in {304, 502}}
    \cup
    {[status |-> s, loc |-> q.loc, query |-> q.query,
      location |-> [loc |-> l, query |-> "none"],
      page |-> "plain", action |-> "-"] : s \in {302}, l \in Places}
    \cup
    \* a redirect that keeps method and body (307, 308), where it differs
    \* from a 302: in answer to the POST of the credentials
    {[status |-> 307, loc |-> q.loc, query |-> q.query,
      location |-> [loc |-> l, query |-> "none"],
      page |-> "plain", action |-> "-"] :
        l \in IF q.method = "POST" /\ q.loc = "login" THEN {"home"} ELSE {}}

(***************************************************************************)
(* What the responses of an exchange looked like so far (history of the    *)
(* exchange, kept beside the program's state to state the properties).     *)
(*   only502  every response so far was a 502                              *)
(*   stage    0 nothing landed yet, 1 landed on the login page, 2 then on  *)
(*            the SSO form, 3 then on a final success page, 9 otherwise    *)
(*   loop     every response so far was the login page or a redirect to it *)
(*   subs     credential submissions put on the wire (counted up to 2)     *)
(*   got      the response to the request on the wire, as the portal sent  *)
(*            it (before any hook)                                         *)
(***************************************************************************)
Trail0 == [only502 |-> TRUE, stage |-> 0, loop |-> TRUE, subs |-> 0,
           got |-> NoResp]

\* a response the portal itself made a redirect
RealRedirect(raw) == HasRedirectLocation(raw)

\* a successful response on which no hook acts
FinalSuccess(raw) == IsSuccess(raw) /\ raw.loc \in {"home", "samlpost"}

NextStage(st, raw) ==
    IF RealRedirect(raw)
    THEN IF UrlIs(raw, "loginpage") \/ raw.loc = "chpass" THEN 9 ELSE st
    ELSE IF st = 0 /\ raw.status = 200 /\ UrlIs(raw, "loginpage") THEN 1
    ELSE IF st = 1 /\ raw.status = 200 /\ raw.loc = "sso" /\ raw.page = "form" THEN 2
    ELSE IF st = 2 /\ FinalSuccess(raw) THEN 3
    ELSE 9

Seen(t, raw) ==
    [t EXCEPT !.only502 = t.only502 /\ raw.status = 502,
              !.stage = NextStage(t.stage, raw),
              !.loop = t.loop /\ ( (raw.status = 200 /\ UrlIs(raw, "loginpage"))
                                  \/ (raw.status = 302 /\ raw.location.loc = "loginpage") ),
              !.got = raw]

Sent(t, q) ==
    IF q.method = "POST" /\ q.loc = "login" /\ q.body \in {"creds", "bypass"}
    THEN [t EXCEPT !.subs = IF t.subs < 2 THEN t.subs + 1 ELSE 2,
                   !.got = NoResp]
    ELSE [t EXCEPT !.got = NoResp]

(***************************************************************************)
(* Initial state: a session just constructed, nobody signed in.            *)
(***************************************************************************)
SessionInit ==
    /\ event = 0
    /\ account = NoAccount
    /\ given = NoAccount
    /\ cookiePath = "unset"
    /\ pc = [p \in Callers |-> "idle"]
    /\ req = [p \in Callers |-> NoReq]
    /\ resp = [p \in Callers |-> NoResp]
    /\ hist = [p \in Callers |-> 0]
    /\ result = [p \in Callers |-> "none"]
    /\ slept = [p \in Callers |-> 0]
    /\ wire = [p \in Callers |-> NoReq]
    /\ thr = [p \in Callers |-> NoReq]
    /\ trail = [p \in Callers |-> Trail0]
    /\ saved = [p \in Callers |-> FALSE]

\* the arguments signin is called with: one account without a cookie
\* location (the default None), another with one
SigninInputs ==
    {[account |-> "first", cookie_path |-> "none"],
     [account |-> "second", cookie_path |-> "path"]}

\* the requests callers make: a GET and a POST with a body of a portal
\* page, and a GET of the login page itself
CallerRequests ==
    {Request("GET", "home", "none", "none"), Request("POST", "home", "none", "data"),
     Request("GET", "loginpage", "none", "none")}

\* Tasks are scheduled cooperatively: a caller whose call has just ended
\* ("done") is the running task, and no other task runs before it has taken
\* its result.
Scheduled(p) == \A o \in Callers \ {p} : pc[o] # "done"

\* a call starts
Begin(p, q) ==
    /\ pc' = [pc EXCEPT ![p] = "waiting"]
    /\ req' = [req EXCEPT ![p] = q]
    /\ UNCHANGED <<event, resp, hist, result, slept, wire, thr, trail, saved>>

\* send / stream (stream builds the request and calls send): up to the lock
Call(p) ==
    /\ pc[p] = "idle"
    /\ Scheduled(p)
    /\ \E q \in CallerRequests : Begin(p, q)
    /\ UNCHANGED <<account, given, cookiePath>>
    /\ OnlySession

\* signin: credentials and cookie location stored, then stream("GET", homepage)
Signin(p) ==
    /\ pc[p] = "idle"
    /\ Scheduled(p)
    /\ \E i \in SigninInputs :
          /\ account' = i.account /\ given' = i.account
          /\ cookiePath' = i.cookie_path
    /\ Begin(p, Request("GET", "home", "none", "none"))
    /\ OnlySession

\* a faulty variant of send, without the lock: the call goes ahead whoever holds it
AcquireNoLock(p) ==
    /\ pc[p] = "waiting"
    /\ Scheduled(p)
    /\ event' = p
    /\ pc' = [pc EXCEPT ![p] = "loop"]
    /\ UNCHANGED <<account, given, cookiePath, req, resp, hist, result, slept, wire,
                   thr, trail, saved>>
    /\ OnlySession

\* send: async with self.event
Acquire(p) ==
    /\ pc[p] = "waiting"
    /\ Scheduled(p)
    /\ event = 0
    /\ event' = p
    /\ pc' = [pc EXCEPT ![p] = "loop"]
    /\ UNCHANGED <<account, given, cookiePath, req, resp, hist, result, slept, wire,
                   thr, trail, saved>>
    /\ OnlySession

\* a faulty variant of the end of send: the lock is released only when a
\* response is returned
FinishHoldsOnError(p, kind, r) ==
    /\ event' = IF kind = "response" THEN 0 ELSE event
    /\ pc' = [pc EXCEPT ![p] = "done"]
    /\ result' = [result EXCEPT ![p] = kind]
    /\ resp' = [resp EXCEPT ![p] = r]

\* the call ends (a response returned or an exception raised): the lock of
\* send is released on the way out
Finish(p, kind, r) ==
    /\ event' = 0
    /\ pc' = [pc EXCEPT ![p] = "done"]
    /\ result' = [result EXCEPT ![p] = kind]
    /\ resp' = [resp EXCEPT ![p] = r]

\* head of the redirect loop: the redirect limit, the request hook, the wire
SendRequest(p) ==
    /\ pc[p] = "loop"
    /\ Scheduled(p)
    /\ IF hist[p] > MaxRedirects
       THEN /\ Finish(p, "TooManyRedirects", NoResp)
            /\ UNCHANGED <<req, wire, trail>>
       ELSE LET q == CatchForcedRedirect(req[p])
            IN  /\ req' = [req EXCEPT ![p] = q]
                /\ wire' = [wire EXCEPT ![p] = q]
                /\ trail' = [trail EXCEPT ![p] = Sent(trail[p], q)]
                /\ pc' = [pc EXCEPT ![p] = "sent"]
                /\ UNCHANGED <<event, result, resp>>
    /\ UNCHANGED <<account, given, cookiePath, hist, slept, thr, saved>>
    /\ OnlySession

\* the caller has its result (or its exception); what the call left behind
\* is dropped
Return(p) ==
    /\ pc[p] = "done"
    /\ pc' = [pc EXCEPT ![p] = "idle"]
    /\ req' = [req EXCEPT ![p] = NoReq]
    /\ resp' = [resp EXCEPT ![p] = NoResp]
    /\ hist' = [hist EXCEPT ![p] = 0]
    /\ result' = [result EXCEPT ![p] = "none"]
    /\ slept' = [slept EXCEPT ![p] = 0]
    /\ wire' = [wire EXCEPT ![p] = NoReq]
    /\ thr' = [thr EXCEPT ![p] = NoReq]
    /\ trail' = [trail EXCEPT ![p] = Trail0]
    /\ saved' = [saved EXCEPT ![p] = FALSE]
    /\ UNCHANGED <<event, account, given, cookiePath>>
    /\ OnlySession

\* a faulty variant of _savecookies: the jar is dumped whenever there is a
\* location, whatever the hooks before it did
SaveCookiesAlways(h, cp) ==
    [r |-> h.r, err |-> h.err, written |-> (cp = "path")]

\* _savecookies, reached when no hook before it raised: reading
\* self._cookie_path raises AttributeError before signin has set it; the
\* jar is dumped when it is a location
SaveCookies(h, cp) ==
    IF ~h.cookies THEN [r |-> h.r, err |-> h.err, written |-> FALSE]
    ELSE IF cp = "unset" THEN [r |-> h.r, err |-> "AttributeError", written |-> FALSE]
    ELSE [r |-> h.r, err |-> "none", written |-> (cp = "path")]

\* the response hooks are through: raise, return, or go round again
Decide(p, h0) ==
    LET h == SaveCookies(h0, cookiePath)
    IN
    /\ saved' = [saved EXCEPT ![p] = h.written]
    /\ IF h.err # "none"
       THEN /\ Finish(p, h.err, h.r)
            /\ UNCHANGED <<req, hist>>
       ELSE IF ~HasRedirectLocation(h.r)
       THEN /\ Finish(p, "response", h.r)
            /\ UNCHANGED <<req, hist>>
       ELSE /\ req' = [req EXCEPT ![p] = BuildRedirectRequest(req[p], h.r)]
            /\ hist' = [hist EXCEPT ![p] = hist[p] + 1]
            /\ pc' = [pc EXCEPT ![p] = "loop"]
            /\ resp' = [resp EXCEPT ![p] = NoResp]
            /\ UNCHANGED <<event, result>>

\* a response arrives; a 502 sends _handle_throttling to sleep, any other
\* response goes through the hooks at once
Receive(p) ==
    /\ pc[p] = "sent"
    /\ Scheduled(p)
    /\ slept' = [slept EXCEPT ![p] = 0]
    /\ \E raw \in Server(req[p]) :
        /\ trail' = [trail EXCEPT ![p] = Seen(trail[p], raw)]
        /\ IF raw.status = 502
           THEN /\ thr' = [thr EXCEPT ![p] = wire[p]]
                /\ resp' = [resp EXCEPT ![p] = raw]
                /\ pc' = [pc EXCEPT ![p] = "sleep"]
                /\ saved' = [saved EXCEPT ![p] = FALSE]
                /\ UNCHANGED <<event, result, req, hist>>
           ELSE /\ thr' = [thr EXCEPT ![p] = NoReq]
                /\ \E h0 \in HandleThrottling(raw) :
                       Decide(p, HooksAfterThrottling(h0.r, account))
    /\ UNCHANGED <<account, given, cookiePath, wire>>
    /\ OnlySession

\* asyncio.sleep(5) is over: the rest of _handle_throttling, then the hooks
Wake(p) ==
    /\ pc[p] = "sleep"
    /\ Scheduled(p)
    /\ slept' = [slept EXCEPT ![p] = slept[p] + ThrottleDelay]
    /\ \E h0 \in HandleThrottling(resp[p]) :
          IF h0.err # "none"
          THEN /\ Finish(p, h0.err, h0.r)
               /\ UNCHANGED <<req, hist, saved>>
          ELSE Decide(p, HooksAfterThrottling(h0.r, account))
    /\ UNCHANGED <<account, given, cookiePath, wire, thr, trail>>
    /\ OnlySession

\* how an exchange ends: a response, or an exception of a hook, of the
\* redirect loop or of the transport
Outcomes ==
    {"response", "LoginError", "AttributeError", "TooManyRedirects",
     "TransportError"}

\* super().send(...) inside the lock, as one step: the exchange ends
SuperSend(p) ==
    /\ pc[p] = "loop"
    /\ Scheduled(p)
    /\ \E kind \in Outcomes : Finish(p, kind, NoResp)
    /\ UNCHANGED <<account, given, cookiePath, req, hist, slept, wire, thr,
                   trail, saved>>
    /\ OnlySession

\* send and signin around an exchange that ends
LockNext ==
    \/ \E p \in Callers : Call(p)
    \/ \E p \in Callers : Signin(p)
    \/ \E p \in Callers : Acquire(p)
    \/ \E p \in Callers : SuperSend(p)
    \/ \E p \in Callers : Return(p)

SessionNext ==
    \/ \E p \in Callers : Call(p)
    \/ \E p \in Callers : Signin(p)
    \/ \E p \in Callers : Acquire(p)
    \/ \E p \in Callers : SendRequest(p)
    \/ \E p \in Callers : Receive(p)
    \/ \E p \in Callers : Wake(p)
    \/ \E p \in Callers : Return(p)

(***************************************************************************)
(* Folder.childs and Material.assignments on one node.                     *)
(*                                                                         *)
(* A listing is the sequence of anchors of the page.  An anchor of a       *)
(* Folder page is a folder link, a file link, a link that is neither       *)
(* ("skip") or a file link whose descriptive text does not parse ("bad":   *)
(* info_regex.search(...) is None, and .groups() raises).  An anchor of a  *)
(* Material page is an assignment link ("folder") or one whose href does   *)
(* not hold the three numbers ("bad").                                     *)
(*                                                                         *)
(* Of the dict objects only the one the node refers to is read or written  *)
(* by the node, so only its contents are kept; a dict a caller still holds *)
(* is known by its identity.                                               *)
(***************************************************************************)
Tasks == {"t1", "t2"}
Names == {"a", "b"}
Shapes(kind) == IF kind = "Folder" THEN {"folder", "file", "skip", "bad"}
                                   ELSE {"folder", "bad"}
Anchors(kind) == [name : Names, shape : Shapes(kind)]
Listings(kind) == UNION {[1..n -> Anchors(kind)] : n \in 0..MaxListing}

NoCall == [ok |-> FALSE, dict |-> 0, objs |-> {}, nonempty |-> FALSE]

\* d[name] = child: a new key goes last, an old key keeps its place
DictSet(entries, name, child) ==
    IF \E j \in 1..Len(entries) : entries[j].name = name
    THEN [j \in 1..Len(entries) |->
             IF entries[j].name = name THEN child ELSE entries[j]]
    ELSE Append(entries, child)

\* the loop over the anchors, from anchor i on: every folder or file anchor
\* makes a new child object and stores it under its name; a bad anchor
\* raises and leaves what was stored so far
RECURSIVE PopulateFrom(_, _, _, _)
PopulateFrom(entries, listing, i, oid) ==
    IF i > Len(listing) THEN [entries |-> entries, oid |-> oid, raised |-> FALSE]
    ELSE LET a == listing[i]
         IN  IF a.shape = "bad"
             THEN [entries |-> entries, oid |-> oid, raised |-> TRUE]
             ELSE IF a.shape = "skip"
             THEN PopulateFrom(entries, listing, i + 1, oid)
             ELSE PopulateFrom(
                      DictSet(entries, a.name,
                              [name |-> a.name, kind |-> a.shape, oid |-> oid + 1]),
                      listing, i + 1, oid + 1)

ObjsOf(entries) == {entries[j].oid : j \in 1..Len(entries)}

\* Python truth of the cache: None and the empty dict are false
Truthy(c) == c # 0 /\ childs # << >>

\* a Folder is made with _childs = None, a Material with _assignments = {}
TreeStart(kind) ==
    /\ tkind = kind
    /\ cache = IF kind = "Folder" THEN 0 ELSE 1
    /\ nextDict = IF kind = "Folder" THEN 0 ELSE 1
    /\ childs = << >>
    /\ whole = TRUE
    /\ nextObj = 0
    /\ netcalls = 0
    /\ tpc = [t \in Tasks |-> "idle"]
    /\ tforce = [t \in Tasks |-> FALSE]
    /\ tret = [t \in Tasks |-> 0]
    /\ tfetch = [t \in Tasks |-> 0]
    /\ toverl = [t \in Tasks |-> FALSE]
    /\ last = NoCall

TreeInit == \E kind \in {"Folder", "Material"} : TreeStart(kind)
TreeFrozen == TreeStart("Folder")

Busy(t) == tpc[t] = "fetching"

\* the call of task t completes with the dict d
Completed(t, d, entries) ==
    /\ tpc' = [tpc EXCEPT ![t] = "returned"]
    /\ tret' = [tret EXCEPT ![t] = d]
    /\ last' = [ok |-> TRUE, dict |-> d, objs |-> ObjsOf(entries),
                nonempty |-> entries # << >>]

\* childs(force_update) / assignments(force_update), up to the return of the
\* cached mapping or to the suspension in session.get
CallChilds(t) ==
    /\ tpc[t] = "idle"
    /\ \E force \in BOOLEAN :
        /\ tforce' = [tforce EXCEPT ![t] = force]
        /\ IF Truthy(cache) /\ ~force
           THEN /\ Completed(t, cache, childs)
                /\ tfetch' = [tfetch EXCEPT ![t] = 0]
                /\ toverl' = [toverl EXCEPT ![t] = \E o \in Tasks \ {t} : Busy(o)]
                /\ UNCHANGED <<cache, childs, whole, nextDict, netcalls>>
           ELSE /\ netcalls < MaxFetches
                /\ cache' = nextDict + 1
                /\ childs' = << >>
                /\ whole' = TRUE
                /\ nextDict' = nextDict + 1
                /\ netcalls' = netcalls + 1
                /\ tfetch' = [tfetch EXCEPT ![t] = 1]
                /\ tpc' = [tpc EXCEPT ![t] = "fetching"]
                /\ toverl' = [o \in Tasks |->
                                 IF o = t THEN \E u \in Tasks \ {t} : Busy(u)
                                 ELSE toverl[o] \/ Busy(o)]
                /\ UNCHANGED <<tret, last>>
    /\ UNCHANGED <<tkind, nextObj>>
    /\ OnlyTree

\* session.get raised, or (Folder) raise_for_status did
FetchFails(t) ==
    /\ tpc[t] = "fetching"
    /\ tpc' = [tpc EXCEPT ![t] = "raised"]
    /\ last' = NoCall
    /\ UNCHANGED <<tkind, cache, childs, whole, nextDict, nextObj, netcalls,
                   tforce, tret, tfetch, toverl>>
    /\ OnlyTree

\* the page arrives and is parsed: the loop stores into self._childs as it is
\* now, and the call returns self._childs as it is now
FetchReturns(t) ==
    /\ tpc[t] = "fetching"
    /\ \E listing \in Listings(tkind) :
        LET got == PopulateFrom(childs, listing, 1, nextObj)
            alone == PopulateFrom(<< >>, listing, 1, nextObj)
        IN  /\ childs' = got.entries
            /\ nextObj' = got.oid
            /\ whole' = \/ got.entries = << >>
                         \/ (~got.raised /\ got.entries = alone.entries)
            /\ IF got.raised
               THEN /\ tpc' = [tpc EXCEPT ![t] = "raised"]
                    /\ last' = NoCall
                    /\ UNCHANGED tret
               ELSE Completed(t, cache, got.entries)
    /\ UNCHANGED <<tkind, cache, nextDict, netcalls, tforce, tfetch, toverl>>
    /\ OnlyTree

\* the caller goes on
TaskDone(t) ==
    /\ tpc[t] \in {"returned", "raised"}
    /\ tpc' = [tpc EXCEPT ![t] = "idle"]
    /\ tret' = [tret EXCEPT ![t] = 0]
    /\ tfetch' = [tfetch EXCEPT ![t] = 0]
    /\ tforce' = [tforce EXCEPT ![t] = FALSE]
    /\ toverl' = [toverl EXCEPT ![t] = FALSE]
    /\ UNCHANGED <<tkind, cache, childs, whole, nextDict, nextObj, netcalls, last>>
    /\ OnlyTree

TreeNext ==
    \/ \E t \in Tasks : CallChilds(t)
    \/ \E t \in Tasks : FetchFails(t)
    \/ \E t \in Tasks : FetchReturns(t)
    \/ \E t \in Tasks : TaskDone(t)

(***************************************************************************)
(* Properties of the node cache.                                           *)
(***************************************************************************)
Completes(t) == tpc[t] # "returned" /\ tpc'[t] = "returned"

\* what C7 asks of a call that completes with no other call in progress
\* during it, after the call that completed before it (last)
AfterCached(t) ==
    /\ tfetch'[t] = 0
    /\ netcalls' = netcalls
    /\ tret'[t] = last.dict
    /\ last'.objs = last.objs

AfterForced(t) ==
    /\ tfetch'[t] = 1
    /\ tret'[t] # last.dict
    /\ last'.objs \cap last.objs = {}

\* C7 (as claimed): after a completed call, a call without force_update
\* makes no network call and returns the same mapping, whatever the listing
\* was; a call with force_update makes one network call and returns a new
\* mapping none of whose children is an object of the old one.
C7_CacheHitAnyListing ==
    [][\A t \in Tasks :
          (Completes(t) /\ ~toverl'[t] /\ last.ok) =>
              IF tforce'[t] THEN AfterForced(t) ELSE AfterCached(t)]_vars

\* C7 restricted: the same, for a call without force_update only after a
\* call that returned a mapping with at least one child.
C7_CacheHitNonEmpty ==
    [][\A t \in Tasks :
          (Completes(t) /\ ~toverl'[t] /\ last.ok) =>
              IF tforce'[t] THEN AfterForced(t)
              ELSE (last.nonempty => AfterCached(t))]_vars

\* C8 (as claimed): the cache is None, or empty, or holds exactly the
\* children of one listing.
C8_CacheAllOrNothing == cache = 0 \/ whole

(***************************************************************************)
(* Folder.files(recursive, force_update): an asynchronous generator, here  *)
(* its frames.  The folder it is called on is object 0; the objects its    *)
(* fetches create are 1, 2, ...  The portal answers the fetch of a folder  *)
(* with any listing of folders and files that keeps the subtree within     *)
(* MaxNodes objects.                                                       *)
(***************************************************************************)
Objs == 0..MaxNodes
FAnchors == [name : Names, shape : {"folder", "file"}]
FListings(room) == UNION {[1..n -> FAnchors] : n \in 0..room}

Frame(f, ph, i) == [folder |-> f, phase |-> ph, idx |-> i]

FilesInit ==
    /\ heap = [o \in Objs |-> [dict |-> FALSE, entries |-> << >>]]
    /\ nobj = 0
    /\ stack = << >>
    /\ out = << >>
    /\ gpc = "idle"
    /\ grec = FALSE
    /\ gforce = FALSE
    /\ gfetched = {}

Top == stack[Len(stack)]
SetTop(fr) == [stack EXCEPT ![Len(stack)] = fr]
Pop == SubSeq(stack, 1, Len(stack) - 1)

\* a faulty variant of the scan: it starts one entry too far
NextIndexOffByOne(entries, from, kind) ==
    IF \E j \in (from + 1)..Len(entries) : entries[j].kind = kind
    THEN CHOOSE j \in (from + 1)..Len(entries) :
            /\ entries[j].kind = kind
            /\ \A k \in (from + 1)..(j - 1) : entries[k].kind # kind
    ELSE 0

\* filter(isinstance(child, kind), childs.values()) resumed at entry `from`:
\* the position of the next child of that kind, 0 when there is none
NextIndex(entries, from, kind) ==
    IF \E j \in from..Len(entries) : entries[j].kind = kind
    THEN CHOOSE j \in from..Len(entries) :
            /\ entries[j].kind = kind
            /\ \A k \in from..(j - 1) : entries[k].kind # kind
    ELSE 0

\* files(recursive, force_update) is called and iterated from the start
FilesCall ==
    /\ gpc \in {"idle", "finished"}
    /\ \E rec \in BOOLEAN, force \in BOOLEAN :
        /\ grec' = rec
        /\ gforce' = force
    /\ gpc' = "running"
    /\ stack' = <<Frame(0, "enter", 1)>>
    /\ out' = << >>
    /\ gfetched' = {}
    /\ UNCHANGED <<heap, nobj>>
    /\ OnlyFiles

\* childs = await self.childs(force_update), in the innermost frame
FilesEnter ==
    /\ gpc = "running"
    /\ Top.phase = "enter"
    /\ LET f == Top.folder
       IN  IF heap[f].dict /\ heap[f].entries # << >> /\ ~gforce
           THEN UNCHANGED <<heap, nobj, gfetched>>
           ELSE \E listing \in FListings(MaxNodes - nobj) :
                   LET got == PopulateFrom(<< >>, listing, 1, nobj)
                   IN  /\ heap' = [heap EXCEPT
                                      ![f] = [dict |-> TRUE, entries |-> got.entries]]
                       /\ nobj' = got.oid
                       /\ gfetched' = gfetched \cup {f}
    /\ stack' = SetTop(Frame(Top.folder, "files", 1))
    /\ UNCHANGED <<out, gpc, grec, gforce>>
    /\ OnlyFiles

\* for file in filter(File, childs.values()): yield file
FilesYield ==
    /\ gpc = "running"
    /\ Top.phase = "files"
    /\ LET es == heap[Top.folder].entries
           j == NextIndex(es, Top.idx, "file")
       IN  /\ j # 0
           /\ out' = Append(out, es[j].oid)
           /\ stack' = SetTop(Frame(Top.folder, "files", j + 1))
    /\ UNCHANGED <<heap, nobj, gpc, grec, gforce, gfetched>>
    /\ OnlyFiles

\* the files of the folder are through: if recursive, on to its folders
FilesOwnDone ==
    /\ gpc = "running"
    /\ Top.phase = "files"
    /\ NextIndex(heap[Top.folder].entries, Top.idx, "file") = 0
    /\ IF grec
       THEN /\ stack' = SetTop(Frame(Top.folder, "folders", 1))
            /\ UNCHANGED gpc
       ELSE /\ stack' = Pop
            /\ gpc' = IF Len(stack) = 1 THEN "finished" ELSE gpc
    /\ UNCHANGED <<heap, nobj, out, grec, gforce, gfetched>>
    /\ OnlyFiles

\* for folder in folders: async for file in folder.files(True, force_update)
FilesDescend ==
    /\ gpc = "running"
    /\ Top.phase = "folders"
    /\ LET es == heap[Top.folder].entries
           j == NextIndex(es, Top.idx, "folder")
       IN  /\ j # 0
           /\ stack' = Append(SetTop(Frame(Top.folder, "folders", j + 1)),
                              Frame(es[j].oid, "enter", 1))
    /\ UNCHANGED <<heap, nobj, out, gpc, grec, gforce, gfetched>>
    /\ OnlyFiles

\* the generator of the innermost folder is exhausted
FilesReturn ==
    /\ gpc = "running"
    /\ Top.phase = "folders"
    /\ NextIndex(heap[Top.folder].entries, Top.idx, "folder") = 0
    /\ stack' = Pop
    /\ gpc' = IF Len(stack) = 1 THEN "finished" ELSE gpc
    /\ UNCHANGED <<heap, nobj, out, grec, gforce, gfetched>>
    /\ OnlyFiles

FilesNext ==
    \/ FilesCall
    \/ FilesEnter
    \/ FilesYield
    \/ FilesOwnDone
    \/ FilesDescend
    \/ FilesReturn

(***************************************************************************)
(* Properties of Folder.files.                                             *)
(***************************************************************************)
RECURSIVE Concat(_)
Concat(ss) == IF ss = << >> THEN << >> ELSE Head(ss) \o Concat(Tail(ss))

OfKind(entries, kind) == SelectSeq(entries, LAMBDA e : e.kind = kind)

\* the order C9 states: the folder's own files, then each child folder's
\* whole sequence in the order of the mapping
RECURSIVE FilesFirst(_, _)
FilesFirst(f, rec) ==
    LET own == OfKind(heap[f].entries, "file")
        subs == OfKind(heap[f].entries, "folder")
    IN  [j \in 1..Len(own) |-> own[j].oid]
        \o (IF rec
            THEN Concat([j \in 1..Len(subs) |-> FilesFirst(subs[j].oid, TRUE)])
            ELSE << >>)

\* C9: a finished files() has yielded, each once, the folder's own files
\* first and then (if recursive) every child folder's sequence, depth-first
\* in mapping order; without recursive it has fetched no child folder.
C9_FilesOrder ==
    gpc = "finished" =>
        /\ out = FilesFirst(0, grec)
        /\ \A i, j \in 1..Len(out) : i # j => out[i] # out[j]
        /\ ~grec => gfetched \subseteq {0}

\* a file of the root listed after a folder is still yielded before that
\* folder's files, and a folder two levels down was walked
C9_Witness ==
    /\ gpc = "finished" /\ grec
    /\ Len(heap[0].entries) = 2
    /\ heap[0].entries[1].kind = "folder"
    /\ heap[0].entries[2].kind = "file"
    /\ Len(out) = 2
    /\ out[1] = heap[0].entries[2].oid
    /\ \E o \in Objs \ {0, heap[0].entries[1].oid} :
           heap[o].dict /\ heap[o].entries # << >>

(***************************************************************************)
(* File.save(path, filename_generator, overwrite): an asynchronous         *)
(* generator that the caller iterates.  One File, one destination path.    *)
(*                                                                         *)
(* A local file is absent or has a size, a modification time and a         *)
(* content: "old" (whatever was there before) or "srv" (bytes of the       *)
(* response body).  The body comes in chunks of one byte.                  *)
(***************************************************************************)
Sizes == 0..MaxSize
Dates == {1, 2}

\* time.mktime(self.date.timetuple()): the parsed Last-Modified, a naive
\* datetime, read as local time; one unit here is the zone's shift
Mktime(d) == d + 1

MTimes == {0} \cup {Mktime(d) : d \in Dates}

Absent == [exists |-> FALSE, size |-> 0, mtime |-> 0, content |-> "-"]
LocalFile(n, m, c) == [exists |-> TRUE, size |-> n, mtime |-> m, content |-> c]
LocalFiles == {Absent} \cup {LocalFile(n, m, "old") : n \in Sizes, m \in MTimes}

\* an attribute of the File: not set (hasattr is false), or set to a value
NotSet(none) == [set |-> FALSE, v |-> none]
Val(v) == [set |-> TRUE, v |-> v]
Unset == [filename |-> NotSet(""), size |-> NotSet(0), date |-> NotSet(0),
          etag |-> NotSet("")]
NoSaveResp == [status |-> 0, size |-> 0, date |-> 0, cd |-> "none", hdr |-> "all"]
NoPrev == [outcome |-> "none", size |-> 0, date |-> 0]

\* the answers to the download request: 403, another error status, or 200
\* with a size and a date; Content-Disposition absent ("none"), ending in
\* filename="..." ("quoted") or of another form ("bare"); and possibly
\* lacking one of Content-Length, Last-Modified, ETag
SaveResponses ==
    {[status |-> st, size |-> 0, date |-> 0, cd |-> "none", hdr |-> "all"] :
        st \in {403, 404, 500}}
    \cup
    {[status |-> 200, size |-> n, date |-> d, cd |-> c, hdr |-> "all"] :
        n \in Sizes, d \in Dates, c \in {"none", "quoted", "bare"}}
    \cup
    {[status |-> 200, size |-> n, date |-> d, cd |-> "none", hdr |-> h] :
        n \in Sizes, d \in Dates, h \in {"noLength", "noDate", "noEtag"}}

\* a faulty variant of the accessors: an attribute never set reads as a
\* default value
ReadAttrDefault(a, k) == [raised |-> FALSE, value |-> a[k].v]

\* the properties filename, size, date, etag: the value, or ValueError("You
\* must get info first.") when the attribute was never set
ReadAttr(a, k) == [raised |-> ~a[k].set, value |-> a[k].v]

\* the accessor returns v
Reads(a, k, v) == ~ReadAttr(a, k).raised /\ ReadAttr(a, k).value = v

AttrNames == {"filename", "size", "date", "etag"}

SaveStart(d, t) ==
    /\ dest = d
    /\ tmp = t
    /\ attrs = Unset
    /\ spc = "idle"
    /\ sover = FALSE
    /\ sname = "name"
    /\ sresp = NoSaveResp
    /\ yielded = << >>
    /\ soutcome = "none"
    /\ dest0 = d
    /\ tmp0 = t
    /\ tmpMade = FALSE
    /\ genCalled = FALSE
    /\ everOk = FALSE
    /\ sprev = NoPrev

\* any local file may be at the destination; a temporary file may be left
\* over from an earlier run
SaveInit ==
    \E d \in LocalFiles, t \in {Absent, LocalFile(1, 0, "old")} : SaveStart(d, t)
SaveFrozen == SaveStart(Absent, Absent)

\* lines 491-501: the four attributes are set one after the other; a missing
\* header raises KeyError with the earlier ones already set, and a
\* Content-Disposition that re.match does not match raises before any is
AttrsFrom(a, r) ==
    LET a1 == [a EXCEPT !.filename =
                            Val(IF r.cd = "quoted" THEN "header" ELSE "name")]
        a2 == [a1 EXCEPT !.size = Val(r.size)]
        a3 == [a2 EXCEPT !.date = Val(r.date)]
        a4 == [a3 EXCEPT !.etag = Val("etag")]
    IN  IF r.cd = "bare" THEN a
        ELSE IF r.hdr = "noLength" THEN a1
        ELSE IF r.hdr = "noDate" THEN a2
        ELSE IF r.hdr = "noEtag" THEN a3
        ELSE a4

\* a faulty variant of the comparison: the modification time is not looked at
UpToDateSizeOnly(f, size, date) ==
    f.exists /\ f.size = size

\* lines 510-512: exists(filepath), getsize(filepath) == self.size and
\* getmtime(filepath) == mtime
UpToDate(f, size, date) ==
    f.exists /\ f.size = size /\ f.mtime = Mktime(date)

\* a faulty variant of the status checks: 403 is not told apart
StatusErrorNo403(r) == IF r.status >= 400 THEN "HTTPStatusError" ELSE "none"

\* lines 486-489: status 403, then raise_for_status
StatusError(r) ==
    IF r.status = 403 THEN "FileNotFound"
    ELSE IF r.status >= 400 THEN "HTTPStatusError"
    ELSE "none"

\* what get_valid_filename(filename_generator(self)) is: a usable name, the
\* empty string, or white space only
FileNames == {"name", "empty", "space"}

\* a faulty variant of the test of the filename: white space is let through
IsBlankEmptyOnly(nm) == nm = "empty"

\* line 504: filename == "" or filename.isspace()
IsBlank(nm) == nm = "empty" \/ nm = "space"

\* a faulty variant of os.utime: the times of the file are left as written
UtimeSkipped(f, date) == f

\* line 526: os.utime(filepath, (mtime, mtime))
Utime(f, date) == [f EXCEPT !.mtime = Mktime(date)]

\* save() is called and iterated: session.stream("GET", self.download)
SaveCall ==
    /\ spc = "idle"
    /\ \E ow \in BOOLEAN, nm \in FileNames :
        /\ sover' = ow
        /\ sname' = nm
    /\ spc' = "stream"
    /\ dest0' = dest
    /\ tmp0' = tmp
    /\ UNCHANGED <<dest, tmp, attrs, sresp, yielded, soutcome, tmpMade,
                   genCalled, everOk, sprev>>
    /\ OnlySave

Ends(how) == spc' = "done" /\ soutcome' = how

\* the response is there: status checks, attributes, filename, comparison,
\* and either the end of the call, yield -1, or the temporary file opened
SaveResponse ==
    /\ spc = "stream"
    /\ \E r \in SaveResponses :
        /\ sresp' = r
        /\ everOk' = (everOk \/ r.status = 200)
        /\ genCalled' = (StatusError(r) = "none" /\ r.cd # "bare" /\ r.hdr = "all")
        /\ IF StatusError(r) # "none"
           THEN Ends(StatusError(r)) /\ UNCHANGED <<attrs, tmp, yielded, tmpMade>>
           ELSE /\ attrs' = AttrsFrom(attrs, r)
                /\ IF r.cd = "bare"
                   THEN Ends("AttributeError") /\ UNCHANGED <<tmp, yielded, tmpMade>>
                   ELSE IF r.hdr # "all"
                   THEN Ends("KeyError") /\ UNCHANGED <<tmp, yielded, tmpMade>>
                   ELSE IF IsBlank(sname)
                   THEN Ends("skipped") /\ UNCHANGED <<tmp, yielded, tmpMade>>
                   ELSE IF ~sover /\ UpToDate(dest, r.size, r.date)
                   THEN /\ yielded' = <<-1>>
                        /\ spc' = "unchanged"
                        /\ UNCHANGED <<soutcome, tmp, tmpMade>>
                   ELSE /\ tmp' = LocalFile(0, 0, "srv")
                        /\ tmpMade' = TRUE
                        /\ spc' = "writing"
                        /\ UNCHANGED <<soutcome, yielded>>
    /\ UNCHANGED <<dest, sover, sname, dest0, tmp0, sprev>>
    /\ OnlySave

\* the caller resumes the generator after yield -1: return
SaveUnchanged ==
    /\ spc = "unchanged"
    /\ Ends("unchanged")
    /\ UNCHANGED <<dest, tmp, attrs, sover, sname, sresp, yielded, dest0, tmp0,
                   tmpMade>>
    /\ UNCHANGED <<genCalled, everOk, sprev>>
    /\ OnlySave

\* yield await outfile.write(chunk)
SaveChunk ==
    /\ spc = "writing"
    /\ tmp.size < sresp.size
    /\ tmp' = [tmp EXCEPT !.size = tmp.size + 1]
    /\ yielded' = Append(yielded, 1)
    /\ UNCHANGED <<dest, attrs, spc, sover, sname, sresp, soutcome, dest0, tmp0,
                   tmpMade>>
    /\ UNCHANGED <<genCalled, everOk, sprev>>
    /\ OnlySave

\* the body is through: the temporary file is closed and renamed onto the
\* destination, whose times are set to the server's date
SaveRename ==
    /\ spc = "writing"
    /\ tmp.size = sresp.size
    /\ dest' = Utime(tmp, attrs.date.v)
    /\ tmp' = Absent
    /\ Ends("downloaded")
    /\ UNCHANGED <<attrs, sover, sname, sresp, yielded, dest0, tmp0, tmpMade>>
    /\ UNCHANGED <<genCalled, everOk, sprev>>
    /\ OnlySave

\* the caller stops iterating at a yield: the generator is closed there
SaveAbandon ==
    /\ \/ spc = "unchanged"
       \/ spc = "writing" /\ yielded # << >>
    /\ Ends("abandoned")
    /\ UNCHANGED <<dest, tmp, attrs, sover, sname, sresp, yielded, dest0, tmp0,
                   tmpMade>>
    /\ UNCHANGED <<genCalled, everOk, sprev>>
    /\ OnlySave

\* the caller goes on; it may save again.  What the call left behind is
\* dropped, but for the response of a completed download.
SaveReturn ==
    /\ spc = "done"
    /\ spc' = "idle"
    /\ sprev' = IF soutcome = "downloaded"
                THEN [outcome |-> soutcome, size |-> sresp.size, date |-> sresp.date]
                ELSE NoPrev
    /\ sover' = FALSE
    /\ sname' = "name"
    /\ sresp' = NoSaveResp
    /\ yielded' = << >>
    /\ soutcome' = "none"
    /\ dest0' = dest
    /\ tmp0' = tmp
    /\ tmpMade' = FALSE
    /\ genCalled' = FALSE
    /\ UNCHANGED <<dest, tmp, attrs, everOk>>
    /\ OnlySave

SaveNext ==
    \/ SaveCall
    \/ SaveResponse
    \/ SaveUnchanged
    \/ SaveChunk
    \/ SaveRename
    \/ SaveAbandon
    \/ SaveReturn

(***************************************************************************)
(* Properties of File.save.                                                *)
(***************************************************************************)
RECURSIVE BytesWritten(_)
BytesWritten(ys) ==
    IF ys = << >> THEN 0
    ELSE (IF Head(ys) > 0 THEN Head(ys) ELSE 0) + BytesWritten(Tail(ys))

\* the call got a complete 200 response and a usable filename, and the
\* caller iterated it to the end
RanToTheEnd ==
    /\ spc = "done"
    /\ sresp.status = 200 /\ sresp.hdr = "all" /\ sresp.cd # "bare"
    /\ sname = "name"
    /\ soutcome # "abandoned"

\* C10: without overwrite, a local file with the server's size and date
\* makes save write nothing, open no temporary file, leave both files as
\* they were and yield -1; in every other case (file absent, other size,
\* other modification time, or overwrite) save writes the whole body to the
\* temporary file and renames it onto the destination.
C10_SkipOrDownload ==
    RanToTheEnd =>
        IF ~sover /\ dest0.exists /\ dest0.size = sresp.size
                  /\ dest0.mtime = Mktime(sresp.date)
        THEN /\ soutcome = "unchanged"
             /\ yielded = <<-1>>
             /\ BytesWritten(yielded) = 0
             /\ ~tmpMade
             /\ dest = dest0
             /\ tmp = tmp0
        ELSE /\ soutcome = "downloaded"
             /\ tmpMade
             /\ BytesWritten(yielded) = sresp.size
             /\ dest = LocalFile(sresp.size, Mktime(sresp.date), "srv")
             /\ tmp = Absent

\* a file that an earlier save downloaded is found unchanged and skipped
C10_Witness ==
    /\ RanToTheEnd
    /\ ~sover /\ dest0.exists /\ dest0.size = sresp.size
    /\ dest0.mtime = Mktime(sresp.date)
    /\ dest0.content = "srv" /\ sresp.size > 0
    /\ soutcome = "unchanged"

C12_StatusErrors ==
    [][(spc = "stream" /\ spc' = "done" /\ sresp'.status # 200) =>
          /\ soutcome' = IF sresp'.status = 403 THEN "FileNotFound"
                                                ELSE "HTTPStatusError"
          /\ dest' = dest /\ tmp' = tmp /\ ~tmpMade'
          /\ attrs' = attrs
          /\ ~genCalled'
          /\ yielded' = << >>]_vars

C12_Witness ==
    /\ spc = "done" /\ sresp.status = 403 /\ soutcome = "FileNotFound"
    /\ dest.exists /\ attrs.etag.set

C25_AttributesAllOrNothing ==
    /\ [](\/ \A k \in AttrNames : ReadAttr(attrs, k).raised
          \/ \A k \in AttrNames : ~ReadAttr(attrs, k).raised)
    /\ [][attrs' # attrs =>
            /\ Reads(attrs', "filename",
                      IF sresp'.cd = "none" THEN "name" ELSE "header")
            /\ Reads(attrs', "size", sresp'.size)
            /\ Reads(attrs', "date", sresp'.date)
            /\ Reads(attrs', "etag", "etag")]_vars

\* C14 (as claimed): a skipped download shows in the progress sequence as a
\* sentinel.
C14_SkippedCarriesSentinel ==
    (spc = "done" /\ soutcome = "skipped") =>
        \E i \in 1..Len(yielded) : yielded[i] < 0

\* C14 (amended): when the filename is empty or white space only, save ends
\* without writing (no temporary file, destination and leftover temporary
\* file as they were) and without yielding anything: the progress sequence
\* is empty, as it is for the completed download of a file of zero bytes.
C14_BlankNameYieldsNothing ==
    /\ (/\ spc = "done" /\ sname \in {"empty", "space"}
        /\ sresp.status = 200 /\ sresp.hdr = "all" /\ sresp.cd # "bare") =>
            /\ soutcome = "skipped"
            /\ genCalled
            /\ yielded = << >>
            /\ ~tmpMade /\ dest = dest0 /\ tmp = tmp0
    /\ (RanToTheEnd /\ soutcome = "downloaded" /\ sresp.size = 0) =>
            yielded = << >>

C14_Witness ==
    /\ spc = "done" /\ soutcome = "skipped" /\ sname = "space"
    /\ dest.exists /\ dest.content = "srv" /\ yielded = << >>

(***************************************************************************)
(* _catch_forced_redirect as a function of the request: applied to any     *)
(* request, and again to its own result.                                   *)
(***************************************************************************)
AllRequests ==
    [method : {"GET", "POST"}, loc : Places, query : Payloads, body : Payloads]

HookStart(q) == hq0 = q /\ hq1 = q /\ hq = q /\ hn = 0

HookInit == \E q \in AllRequests : HookStart(q)
HookFrozen == HookStart(NoReq)

HookApply ==
    /\ hn < MaxApply
    /\ hq' = CatchForcedRedirect(hq)
    /\ hq1' = IF hn = 0 THEN CatchForcedRedirect(hq) ELSE hq1
    /\ hn' = hn + 1
    /\ UNCHANGED hq0
    /\ OnlyHook

HookNext == HookApply

\* C16 (as claimed): the hook makes a request to the login endpoint with a
\* query, or to the SAML POST endpoint, a POST to the same place without
\* query whose body is the query; it leaves every other request as it is;
\* and applied again it changes nothing.
C16_HookIdempotent ==
    /\ hn >= 1 =>
          hq1 = IF \/ (hq0.loc = "login" /\ hq0.query # "none")
                   \/ hq0.loc = "samlpost"
                THEN Request("POST", hq0.loc, "none", hq0.query)
                ELSE hq0
    /\ hn >= 2 => hq = hq1

(***************************************************************************)
(* get_valid_filename: re.sub(r'[^-\s\w.]', '_', filename) on a str.  A    *)
(* name is a sequence of characters; a character stands for its class.     *)
(* In a str pattern \w is every Unicode letter, digit and the underscore,   *)
(* \s every Unicode white space.                                           *)
(***************************************************************************)
AsciiWord == {"a", "7", "_"}
OtherWord == {"U+00E0"}
WhiteSpace == {"SP"}
Punctuation == {"/"}
Chars == AsciiWord \cup OtherWord \cup WhiteSpace \cup Punctuation \cup {".", "-"}

NamesGiven == UNION {[1..n -> Chars] : n \in 0..MaxName}

\* a faulty variant of the character class: the dot stands for any
\* character but is itself replaced
KeptNoDot(c) == c \in {"-"} \cup WhiteSpace \cup AsciiWord \cup OtherWord

\* the characters the class [^-\s\w.] does not match
Kept(c) == c \in {"-", "."} \cup WhiteSpace \cup AsciiWord \cup OtherWord

GetValidFilename(n) == [i \in 1..Len(n) |-> IF Kept(n[i]) THEN n[i] ELSE "_"]

NameStart(n) == fname0 = n /\ fname1 = n /\ fname = n /\ fcount = 0

NameInit == \E n \in NamesGiven : NameStart(n)
NameFrozen == NameStart(<< >>)

NameApply ==
    /\ fcount < MaxApply
    /\ fname' = GetValidFilename(fname)
    /\ fname1' = IF fcount = 0 THEN GetValidFilename(fname) ELSE fname1
    /\ fcount' = fcount + 1
    /\ UNCHANGED fname0
    /\ OnlyName

NameNext == NameApply

\* C17 (as claimed): every character outside [A-Za-z0-9_.\s-] becomes '_',
\* every other character and the length stay, and a second application
\* changes nothing.
C17_ReplacesOutsideAsciiClass ==
    /\ fcount >= 1 =>
          /\ Len(fname1) = Len(fname0)
          /\ \A i \in 1..Len(fname0) :
                fname1[i] = IF fname0[i] \in {"a", "7", "_", ".", "-", "SP"}
                         THEN fname0[i] ELSE "_"
    /\ fcount >= 2 => fname = fname1

\* C17 (amended): every character that is not a letter or digit of any
\* script, an underscore, white space, '.' or '-' becomes '_'; every other
\* character (a non-ASCII letter included) and the length stay; a second
\* application changes nothing.
C17_ReplacesOutsideUnicodeClass ==
    /\ fcount >= 1 =>
          /\ Len(fname1) = Len(fname0)
          /\ \A i \in 1..Len(fname0) :
                fname1[i] =
                    IF fname0[i] \in {"a", "7", "_", ".", "-", "SP", "U+00E0"}
                    THEN fname0[i] ELSE "_"
    /\ fcount >= 2 => fname = fname1

C17_Witness ==
    /\ fcount = 2 /\ Len(fname0) = 3
    /\ fname0[1] = "U+00E0" /\ fname0[2] = "/" /\ fname0[3] = "."
    /\ fname = <<"U+00E0", "_", ".">>

(***************************************************************************)
(* Videostore.videolessons, called by concurrent tasks on one Videostore.   *)
(* A listing is the sequence of lessons of the page (the triples zip       *)
(* yields), each with its name; the File made for a lesson is known by the  *)
(* position of the lesson.  The dict is the set of its entries.             *)
(***************************************************************************)
LessonNames == {"intro", "recap"}
LessonListings == UNION {[1..n -> LessonNames] : n \in 0..MaxLessons}

NoDict == {}

\* later[i]: a later lesson of the listing has the name of lesson i
LaterSameName(l, i) == \E j \in (i + 1)..Len(l) : l[j] = l[i]

\* {videolesson.properties["name"]: videolesson for videolesson in ...}:
\* a key met again takes the later value
DictOfLessons(l) ==
    {[name |-> l[i], lesson |-> i] : i \in {k \in 1..Len(l) : ~LaterSameName(l, k)}}

\* what a call gives back: the dict, or the exception of a fetch
Returned(d) == [kind |-> "dict", dict |-> d]
Raised == [kind |-> "error", dict |-> NoDict]
NoReturn == [kind |-> "none", dict |-> NoDict]

VideoInit ==
    /\ videolessons = NoDict
    /\ vpc = [p \in Callers |-> "idle"]
    /\ vlisting = [p \in Callers |-> << >>]
    /\ vfetched = [p \in Callers |-> 0]
    /\ vret = [p \in Callers |-> NoReturn]
VideoFrozen == VideoInit

\* the running task is not preempted between the end of its call and the
\* use of the result
VideoScheduled(p) == \A o \in Callers \ {p} : vpc[o] # "done"

\* videolessons(force_update): the cache test, up to the first await
VideolessonsCall(p) ==
    /\ vpc[p] = "idle"
    /\ VideoScheduled(p)
    /\ \E fu \in BOOLEAN :
          IF videolessons # NoDict /\ ~fu
          THEN /\ vpc' = [vpc EXCEPT ![p] = "done"]
               /\ vret' = [vret EXCEPT ![p] = Returned(videolessons)]
          ELSE /\ vpc' = [vpc EXCEPT ![p] = "listing"]
               /\ UNCHANGED vret
    /\ UNCHANGED <<videolessons, vlisting, vfetched>>
    /\ OnlyVideo

\* _get_videolessons: the listing page arrives and the coroutines are made,
\* or the fetch (or strptime on a date) raises
GetVideolessons(p) ==
    /\ vpc[p] = "listing"
    /\ VideoScheduled(p)
    /\ \/ \E l \in LessonListings :
            /\ vlisting' = [vlisting EXCEPT ![p] = l]
            /\ vpc' = [vpc EXCEPT ![p] = "gather"]
            /\ UNCHANGED vret
       \/ /\ vpc' = [vpc EXCEPT ![p] = "done"]
          /\ vret' = [vret EXCEPT ![p] = Raised]
          /\ UNCHANGED vlisting
    /\ UNCHANGED <<videolessons, vfetched>>
    /\ OnlyVideo

\* _get_videolesson_info of one lesson of the gather ends: with its File, or
\* with an exception, which gather hands to videolessons at once
GetVideolessonInfo(p) ==
    /\ vpc[p] = "gather"
    /\ VideoScheduled(p)
    /\ vfetched[p] < Len(vlisting[p])
    /\ \/ /\ vfetched' = [vfetched EXCEPT ![p] = vfetched[p] + 1]
          /\ UNCHANGED <<vpc, vret>>
       \/ /\ vpc' = [vpc EXCEPT ![p] = "done"]
          /\ vret' = [vret EXCEPT ![p] = Raised]
          /\ UNCHANGED vfetched
    /\ UNCHANGED <<videolessons, vlisting>>
    /\ OnlyVideo

\* gather returns: the dict is built, stored and returned
VideolessonsStore(p) ==
    /\ vpc[p] = "gather"
    /\ VideoScheduled(p)
    /\ vfetched[p] = Len(vlisting[p])
    /\ videolessons' = DictOfLessons(vlisting[p])
    /\ vret' = [vret EXCEPT ![p] = Returned(DictOfLessons(vlisting[p]))]
    /\ vpc' = [vpc EXCEPT ![p] = "done"]
    /\ UNCHANGED <<vlisting, vfetched>>
    /\ OnlyVideo

\* the caller has its result
VideolessonsReturn(p) ==
    /\ vpc[p] = "done"
    /\ vpc' = [vpc EXCEPT ![p] = "idle"]
    /\ vlisting' = [vlisting EXCEPT ![p] = << >>]
    /\ vfetched' = [vfetched EXCEPT ![p] = 0]
    /\ vret' = [vret EXCEPT ![p] = NoReturn]
    /\ UNCHANGED videolessons
    /\ OnlyVideo

VideoNext ==
    \/ \E p \in Callers : VideolessonsCall(p)
    \/ \E p \in Callers : GetVideolessons(p)
    \/ \E p \in Callers : GetVideolessonInfo(p)
    \/ \E p \in Callers : VideolessonsStore(p)
    \/ \E p \in Callers : VideolessonsReturn(p)

\* a call that fetched hands its result over
FetchedAndDone(p) == vpc[p] = "gather" /\ vpc'[p] = "done"

\* the dict has exactly one File for each lesson of the listing
OneFilePerLesson(d, l) ==
    /\ Cardinality(d) = Len(l)
    /\ \A i \in 1..Len(l) : [name |-> l[i], lesson |-> i] \in d

\* the dict has one File for each name of the listing: that of the last
\* lesson with the name
OneFilePerName(d, l) ==
    /\ \A e \in d : e.lesson \in 1..Len(l) /\ l[e.lesson] = e.name
    /\ \A i \in 1..Len(l) :
          \E e \in d : e.name = l[i] /\ e.lesson >= i
    /\ \A e, f \in d : e.name = f.name => e = f

\* C20 (as claimed): videolessons returns only after every detail fetch of
\* the listing has completed, with one File for each lesson of the listing;
\* the cache changes only then, in one step and to that mapping; and a call
\* that fails leaves the cache as it was.
C20_JoinedCompleteMapping ==
    [][\A p \in Callers :
          /\ (FetchedAndDone(p) /\ vret'[p].kind = "dict") =>
                /\ vfetched[p] = Len(vlisting[p])
                /\ OneFilePerLesson(vret'[p].dict, vlisting[p])
                /\ videolessons' = vret'[p].dict
          /\ (vpc'[p] = "done" /\ vpc[p] # "done" /\ vret'[p].kind = "error") =>
                videolessons' = videolessons
          /\ videolessons' # videolessons =>
                \E q \in Callers :
                    FetchedAndDone(q) /\ vret'[q].kind = "dict"]_vars

\* C20 with one File for each lesson name instead of each lesson
C20_JoinedMappingByName ==
    [][\A p \in Callers :
          /\ (FetchedAndDone(p) /\ vret'[p].kind = "dict") =>
                /\ vfetched[p] = Len(vlisting[p])
                /\ OneFilePerName(vret'[p].dict, vlisting[p])
                /\ videolessons' = vret'[p].dict
          /\ (vpc'[p] = "done" /\ vpc[p] # "done" /\ vret'[p].kind = "error") =>
                videolessons' = videolessons
          /\ videolessons' # videolessons =>
                \E q \in Callers :
                    FetchedAndDone(q) /\ vret'[q].kind = "dict"]_vars

(***************************************************************************)
(* File.save called by concurrent tasks whose filename_generator gives the *)
(* same name, so that filepath and f"{filepath}.tmp" are the same for all.  *)
(* session.stream holds the lock of send only until the response (status   *)
(* and headers) is there; the body is read afterwards, by aiter_bytes.      *)
(* The server content has MaxSize chunks; a file is an inode: the chunk     *)
(* positions that hold data, and whether its mtime is the server's date.    *)
(***************************************************************************)
Chunks == 1..MaxSize
InodeIds == 1..(NumCallers + 1)

NoFile == [filled |-> {}, stamped |-> FALSE]
\* the complete previous version, with another date
OldFile == [filled |-> Chunks, stamped |-> FALSE]

\* a complete file: every chunk position holds data
Whole(f) == f.filled = Chunks

\* getsize, in chunks: up to the last position written (a gap counts)
GetSize(f) == IF f.filled = {} THEN 0
              ELSE CHOOSE n \in f.filled : \A m \in f.filled : m <= n

\* exists(filepath) and getsize == self.size and getmtime == mtime
\* (overwrite is False)
SameAsLocal ==
    /\ paths.dest # 0
    /\ GetSize(inodes[paths.dest]) = MaxSize
    /\ inodes[paths.dest].stamped

StreamStart(old) ==
    /\ slock = 0
    /\ cpc = [p \in Callers |-> "idle"]
    /\ cgot = [p \in Callers |-> 0]
    /\ chandle = [p \in Callers |-> 0]
    /\ cout = [p \in Callers |-> "none"]
    /\ inodes = [i \in InodeIds |-> IF old /\ i = 1 THEN OldFile ELSE NoFile]
    /\ paths = [dest |-> IF old THEN 1 ELSE 0, tmp |-> 0]
    /\ ninode = IF old THEN 1 ELSE 0

\* the destination is absent, or holds the previous version
StreamInit == \E old \in BOOLEAN : StreamStart(old)
StreamFrozen == StreamStart(FALSE)

\* save is called: session.stream builds the request and calls send
StreamCall(p) ==
    /\ cpc[p] = "idle"
    /\ cpc' = [cpc EXCEPT ![p] = "waiting"]
    /\ UNCHANGED <<slock, cgot, chandle, cout, inodes, paths, ninode>>
    /\ OnlyStream

\* a faulty variant of send: the lock is taken whoever holds it
StreamSendNoLock(p) ==
    /\ cpc[p] = "waiting"
    /\ slock' = p
    /\ cpc' = [cpc EXCEPT ![p] = "sending"]
    /\ UNCHANGED <<cgot, chandle, cout, inodes, paths, ninode>>
    /\ OnlyStream

\* send: async with self.event, then the request goes out
StreamSend(p) ==
    /\ cpc[p] = "waiting"
    /\ slock = 0
    /\ slock' = p
    /\ cpc' = [cpc EXCEPT ![p] = "sending"]
    /\ UNCHANGED <<cgot, chandle, cout, inodes, paths, ninode>>
    /\ OnlyStream

\* send returns the response (the lock is released) or raises; save checks
\* the status, sets the attributes and compares with the local file
StreamResponse(p) ==
    /\ cpc[p] = "sending"
    /\ slock' = 0
    /\ \/ /\ cpc' = [cpc EXCEPT ![p] = "done"]
          /\ cout' = [cout EXCEPT ![p] = "error"]
       \/ /\ SameAsLocal
          /\ cpc' = [cpc EXCEPT ![p] = "done"]
          /\ cout' = [cout EXCEPT ![p] = "unchanged"]
       \/ /\ ~SameAsLocal
          /\ cpc' = [cpc EXCEPT ![p] = "open"]
          /\ UNCHANGED cout
    /\ UNCHANGED <<cgot, chandle, inodes, paths, ninode>>
    /\ OnlyStream

\* aiofiles.open(tmpfilepath, "wb"): the file is made, or emptied when the
\* path is there already
StreamOpen(p) ==
    /\ cpc[p] = "open"
    /\ IF paths.tmp = 0
       THEN /\ ninode' = ninode + 1
            /\ paths' = [paths EXCEPT !.tmp = ninode + 1]
            /\ chandle' = [chandle EXCEPT ![p] = ninode + 1]
            /\ inodes' = [inodes EXCEPT ![ninode + 1] = NoFile]
       ELSE /\ inodes' = [inodes EXCEPT ![paths.tmp] = NoFile]
            /\ chandle' = [chandle EXCEPT ![p] = paths.tmp]
            /\ UNCHANGED <<paths, ninode>>
    /\ cpc' = [cpc EXCEPT ![p] = "body"]
    /\ UNCHANGED <<slock, cgot, cout>>
    /\ OnlyStream

\* one turn of "async for chunk in response.aiter_bytes()": the chunk is
\* written at the position of the open file
StreamChunk(p) ==
    /\ cpc[p] = "body"
    /\ cgot[p] < MaxSize
    /\ inodes' = [inodes EXCEPT ![chandle[p]].filled = @ \cup {cgot[p] + 1}]
    /\ cgot' = [cgot EXCEPT ![p] = cgot[p] + 1]
    /\ UNCHANGED <<slock, cpc, chandle, cout, paths, ninode>>
    /\ OnlyStream

\* the stream breaks before the last chunk: the exception leaves save, the
\* file is closed
StreamBreaks(p) ==
    /\ cpc[p] = "body"
    /\ cgot[p] < MaxSize
    /\ cpc' = [cpc EXCEPT ![p] = "done"]
    /\ cout' = [cout EXCEPT ![p] = "error"]
    /\ chandle' = [chandle EXCEPT ![p] = 0]
    /\ UNCHANGED <<slock, cgot, inodes, paths, ninode>>
    /\ OnlyStream

\* aiofiles.os.rename(tmpfilepath, filepath); FileNotFoundError when the
\* .tmp path is gone
StreamRename(p) ==
    /\ cpc[p] = "body"
    /\ cgot[p] = MaxSize
    /\ chandle' = [chandle EXCEPT ![p] = 0]
    /\ IF paths.tmp = 0
       THEN /\ cpc' = [cpc EXCEPT ![p] = "done"]
            /\ cout' = [cout EXCEPT ![p] = "FileNotFoundError"]
            /\ UNCHANGED paths
       ELSE /\ paths' = [dest |-> paths.tmp, tmp |-> 0]
            /\ cpc' = [cpc EXCEPT ![p] = "renamed"]
            /\ UNCHANGED cout
    /\ UNCHANGED <<slock, cgot, inodes, ninode>>
    /\ OnlyStream

\* os.utime(filepath, (mtime, mtime))
StreamUtime(p) ==
    /\ cpc[p] = "renamed"
    /\ inodes' = [inodes EXCEPT ![paths.dest].stamped = TRUE]
    /\ cpc' = [cpc EXCEPT ![p] = "done"]
    /\ cout' = [cout EXCEPT ![p] = "saved"]
    /\ UNCHANGED <<slock, cgot, chandle, paths, ninode>>
    /\ OnlyStream

StreamNext ==
    \/ \E p \in Callers : StreamCall(p)
    \/ \E p \in Callers : StreamSend(p)
    \/ \E p \in Callers : StreamResponse(p)
    \/ \E p \in Callers : StreamOpen(p)
    \/ \E p \in Callers : StreamChunk(p)
    \/ \E p \in Callers : StreamBreaks(p)
    \/ \E p \in Callers : StreamRename(p)
    \/ \E p \in Callers : StreamUtime(p)

\* between the request and the response of send
Sending(p) == cpc[p] = "sending"
\* between the request and the end of the read of the body
Streaming(p) == cpc[p] \in {"sending", "open", "body"}

\* C21 (as claimed): at most one streamed exchange at a time is between
\* sending its request and finishing the read of its response body.
C21_OneStreamAtATime ==
    Cardinality({p \in Callers : Streaming(p)}) <= 1

\* C21 (amended): at most one exchange at a time is between sending its
\* request and getting its response from send, and it holds the lock; the
\* lock is held by nobody else.  (The body of a streamed response is read
\* after send has returned, without the lock.)
C21_OneSendAtATime ==
    /\ Cardinality({p \in Callers : Sending(p)}) <= 1
    /\ \A p \in Callers : Sending(p) <=> slock = p

\* one save is reading its body while another is inside send
C21_Witness ==
    \E p, o \in Callers :
        /\ cpc[p] = "body" /\ cgot[p] >= 1 /\ cgot[p] < MaxSize
        /\ Sending(o) /\ slock = o

\* C24 (as claimed): the file at the destination path is absent or whole
\* (the previous version or a complete copy of the server content), in
\* every state.
C24_DestinationNeverPartial ==
    paths.dest = 0 \/ Whole(inodes[paths.dest])

\* the parts that no specification of the others moves
Rest == HookFrozen /\ NameFrozen /\ VideoFrozen /\ StreamFrozen

(***************************************************************************)
(* The specifications.                                                     *)
(***************************************************************************)
Init == SessionInit /\ TreeFrozen /\ FilesInit /\ SaveFrozen /\ Rest
Next == SessionNext
Spec == Init /\ [][Next]_vars

TreeSpecInit == TreeInit /\ SessionInit /\ FilesInit /\ SaveFrozen /\ Rest
TreeSpec == TreeSpecInit /\ [][TreeNext]_vars

FilesSpecInit == FilesInit /\ SessionInit /\ TreeFrozen /\ SaveFrozen /\ Rest
FilesSpec == FilesSpecInit /\ [][FilesNext]_vars

SaveSpecInit == SaveInit /\ SessionInit /\ TreeFrozen /\ FilesInit /\ Rest
SaveSpec == SaveSpecInit /\ [][SaveNext]_vars

HookSpecInit ==
    HookInit /\ NameFrozen /\ VideoFrozen /\ StreamFrozen /\ SessionInit /\ TreeFrozen
             /\ FilesInit /\ SaveFrozen
HookSpec == HookSpecInit /\ [][HookNext]_vars

NameSpecInit ==
    NameInit /\ HookFrozen /\ VideoFrozen /\ StreamFrozen /\ SessionInit /\ TreeFrozen /\ FilesInit
             /\ SaveFrozen
NameSpec == NameSpecInit /\ [][NameNext]_vars

VideoSpecInit ==
    VideoInit /\ HookFrozen /\ NameFrozen /\ StreamFrozen /\ SessionInit /\ TreeFrozen /\ FilesInit
              /\ SaveFrozen
VideoSpec == VideoSpecInit /\ [][VideoNext]_vars

StreamSpecInit ==
    StreamInit /\ HookFrozen /\ NameFrozen /\ VideoFrozen /\ SessionInit /\ TreeFrozen
               /\ FilesInit /\ SaveFrozen
StreamSpec == StreamSpecInit /\ [][StreamNext]_vars

\* send with the exchange taken as a whole, and its scheduling:
\* asyncio.Lock wakes its waiters in the order they came, so a caller that
\* waits is not passed over for ever; a task that can run does run; and
\* the exchange of the holder ends, in one of its outcomes.
LiveSpec ==
    /\ Init /\ [][LockNext]_vars
    /\ \A p \in Callers :
          /\ SF_vars(Acquire(p))
          /\ WF_vars(SuperSend(p))
          /\ WF_vars(Return(p))

(***************************************************************************)
(* Properties of the session.                                              *)
(***************************************************************************)
InExchange(p) == pc[p] \in {"loop", "sent", "sleep"}

\* C1: an exchange whose responses landed on the login page, then on the SSO
\* form, then on a final success page returns that success response,
\* unmodified, after having submitted the credentials inside the same call;
\* and no call ever returns a login-page response or a successful SSO
\* response as its result.
C1_LoginChainResolves ==
    \A p \in Callers :
        /\ (pc[p] = "done" /\ trail[p].stage = 3) =>
              /\ result[p] = "response"
              /\ FinalSuccess(resp[p])
              /\ resp[p].location = NoLoc
              /\ resp[p].loc = wire[p].loc
              /\ trail[p].subs >= 1
              /\ hist[p] >= 2
        /\ (pc[p] = "done" /\ result[p] = "response") =>
              /\ ~UrlIs(resp[p], "loginpage")
              /\ ~(resp[p].loc = "sso" /\ IsSuccess(resp[p]))

C1_Witness ==
    \E p \in Callers :
        pc[p] = "done" /\ trail[p].stage = 3 /\ result[p] = "response"

\* C2: at most one caller is inside an exchange (between acquiring the lock
\* and the end of its call of send, every redirect round trip included), and
\* that caller holds the lock; every other caller is idle or waiting.
C2_OneExchangeInFlight ==
    /\ Cardinality({p \in Callers : InExchange(p)}) <= 1
    /\ \A p \in Callers : InExchange(p) => event = p

C2_Witness ==
    \E p, o \in Callers :
        p # o /\ pc[p] = "sleep" /\ hist[p] >= 1 /\ pc[o] = "waiting"

\* C3 (as claimed): the request sent after a 502 is the throttled request
\* again: same method, same URL, same body.
C3_RetryIsIdentical ==
    \A p \in Callers :
        (pc[p] = "sent" /\ thr[p] # NoReq) => wire[p] = thr[p]

\* C4 (as claimed): there is no retry cap: an exchange whose responses were
\* all 502 so far never ends with the redirect-limit error.
C4_NoRetryCap ==
    \A p \in Callers :
        (pc[p] = "done" /\ trail[p].only502) => result[p] # "TooManyRedirects"

\* C5 (as claimed): a call fails with LoginError exactly when its final
\* non-redirect response is on the login page.
C5_AuthErrorIffLoginPage ==
    \A p \in Callers :
        pc[p] = "done" =>
            (result[p] = "LoginError"
                <=> (~IsRedirect(resp[p]) /\ UrlIs(resp[p], "loginpage")))

\* C5 (amended): a call fails with LoginError exactly when (a) its final
\* response has a non-redirect status, is on the login-submission endpoint
\* and carries the portal's loginerror element, or (b) a response that got
\* past the throttling hook is on the login page or the password-expiry page
\* while no credentials are set.
C5_AuthErrorIffLoginEndpoint ==
    \A p \in Callers :
        pc[p] = "done" =>
            (result[p] = "LoginError"
                <=> \/ /\ ~IsRedirect(resp[p])
                       /\ UrlIs(resp[p], "login")
                       /\ resp[p].page = "error"
                    \/ /\ account = NoAccount
                       /\ resp[p].status # 502
                       /\ (UrlIs(resp[p], "loginpage") \/ resp[p].loc = "chpass"))

C5_Witness ==
    \E p \in Callers :
        /\ pc[p] = "done" /\ result[p] = "LoginError" /\ account # NoAccount
        /\ UrlIs(resp[p], "login") /\ trail[p].subs >= 1

\* C6 (as claimed): an exchange in which every response was the login page
\* or a redirect back to it, and which submitted the credentials more than
\* once, ends with LoginError.
C6_LoginLoopEndsInAuthError ==
    \A p \in Callers :
        (pc[p] = "done" /\ trail[p].loop /\ trail[p].subs >= 2)
            => result[p] = "LoginError"

\* the step on which the response hooks of caller p are through
HooksDone(p) == pc[p] \in {"sent", "sleep"} /\ pc'[p] \in {"loop", "done"}

PlainError(raw) ==
    raw.status >= 400 /\ raw.status # 502 /\ raw.loc \in {"home", "samlpost"}

\* C18 (as claimed): an error status other than 502 on a response that is
\* not on the login page, the login endpoint, the password-expiry page or
\* the SSO endpoint reaches the caller as it came: the call returns that
\* very response, without raising and without another round trip.
C18_ErrorSurfacedUnmodified ==
    [][\A p \in Callers :
          (HooksDone(p) /\ PlainError(trail'[p].got)) =>
              /\ pc'[p] = "done" /\ result'[p] = "response"
              /\ resp'[p] = trail'[p].got
              /\ hist'[p] = hist[p]]_vars

\* C18 restricted to a session on which signin has run
C18_ErrorSurfacedOnceSignedIn ==
    [][\A p \in Callers :
          (HooksDone(p) /\ PlainError(trail'[p].got) /\ cookiePath # "unset") =>
              /\ pc'[p] = "done" /\ result'[p] = "response"
              /\ resp'[p] = trail'[p].got
              /\ hist'[p] = hist[p]]_vars

C22_FirstHookDecides ==
    [][\A p \in Callers :
          (pc[p] = "sleep" /\ pc'[p] = "loop") =>
              /\ req'[p].loc = resp[p].loc
              /\ req'[p].query = resp[p].query]_vars

\* the request carries the username and password
HasCredentials(q) ==
    q.query \in {"creds", "bypass"} \/ q.body \in {"creds", "bypass"}

\* C26 (as claimed): every request put on the wire that carries the
\* credentials is a POST to the login-submission endpoint with the
\* credentials in its body and nothing in its query.
C26_CredentialsOnlyInLoginPost ==
    \A p \in Callers :
        HasCredentials(wire[p]) =>
            /\ wire[p].method = "POST" /\ wire[p].loc = "login"
            /\ wire[p].query = "none"

\* C26 (amended): a request put on the wire that carries the credentials
\* is a POST with the credentials in its body and nothing in its query,
\* addressed to the login-submission endpoint or to the place a redirect
\* that keeps method and body (307) has just named.
C26_CredentialsOnlyInPostBody ==
    [][\A p \in Callers :
          (pc[p] = "loop" /\ pc'[p] = "sent" /\ HasCredentials(wire'[p])) =>
              /\ wire'[p].method = "POST" /\ wire'[p].query = "none"
              /\ \/ wire'[p].loc = "login"
                 \/ /\ trail[p].got.status = 307
                    /\ wire'[p].loc = trail[p].got.location.loc]_vars

\* the submission was answered with a 307 and the credentials are on the
\* wire again, in the body of a POST to the place named
C26_Witness ==
    \E p \in Callers :
        /\ pc[p] = "sent" /\ trail[p].subs >= 1
        /\ wire[p] = Request("POST", "home", "none", "creds")

\* C23: the lock of send is released after every outcome of an exchange:
\* whenever no exchange is in progress the lock is free, the holder of the
\* lock is always a caller inside its exchange, and a caller that waits for
\* the lock gets it.
C23_LockReleased ==
    /\ []((\A p \in Callers : ~InExchange(p)) => event = 0)
    /\ [](event # 0 => InExchange(event))
    /\ \A p \in Callers : (pc[p] = "waiting") ~> (pc[p] = "loop")

\* a call has failed with the lock free again, and another caller waits
C23_Witness ==
    \E p, o \in Callers :
        /\ p # o /\ pc[p] = "done" /\ result[p] = "TransportError"
        /\ event = 0 /\ pc[o] = "waiting"

\* the safety parts of C23 on the full session
C23_LockFreeWhenIdle ==
    /\ (\A p \in Callers : ~InExchange(p)) => event = 0
    /\ event # 0 => InExchange(event)

====
